---- MODULE Spec2Model ----
(***************************************************************************)
(* Authentication/session lifecycle of the eero client.                    *)
(*                                                                         *)
(* Two implementations coexist in the repository and both are modelled:    *)
(*   impl = "AuthAPI"  the modular client, src/eero/api/auth.py on top of  *)
(*                     the transport of src/eero/api/base.py               *)
(*   impl = "EeroAPI"  the standalone client, src/eero/api.py              *)
(* The implementation, the persistence backend and the content of the      *)
(* backing store are fixed at construction.  Every operation is one        *)
(* action; the server's answer is an input of the action.                  *)
(*                                                                         *)
(* Specifications:                                                         *)
(*   Spec          the operations of the session, one client, a backing     *)
(*                 store that is absent or holds a well-formed blob         *)
(*   ResourceSpec  the modular client with its resource calls               *)
(*   StorageSpec   loading from a backing store that may hold anything and  *)
(*                 that another process saves to                            *)
(*   LoginSpec     the start of a login for every identifier                *)
(*   TransportSpec the transport called with any headers, on both clients   *)
(*   CliSpec       the CLI's interactive_login on the modular client        *)
(*                                                                         *)
(* Python values: None is the string "None", the empty string is "",      *)
(* an optional datetime is <<>> (None) or <<t>> with t in clock ticks.     *)
(* Writes to the backing store succeed; the caller uses the client as      *)
(* "async with", so __aenter__ runs before any other operation.            *)
(***************************************************************************)
EXTENDS Integers, Sequences, FiniteSets, TLC

\* ---------------------------------------------------------------- bounds
\* clock ticks per second (datetime has sub-second resolution)
SubSec == 2
\* number of times the clock may advance in one run
MaxTicks == 2
\* length up to which every identifier over a small alphabet is tried
ShortLen == 2

\* ------------------------------------------------------- program constants
\* timedelta(days=30)
SessionDays == 30
\* timedelta(minutes=5)
LoginWindowMinutes == 5

SessionLifetime == SessionDays * 86400 * SubSec
LoginWindow == LoginWindowMinutes * 60 * SubSec

VARIABLES
    impl,                  \* which client class was constructed
    use_keyring,           \* AuthAPI._use_keyring
    cookie_file,           \* TRUE iff a cookie file path was configured
    user_identifier,       \* the identifier the caller logs in with
    cli,                   \* the run of the CLI's interactive_login
    entered,               \* __aenter__ has run
    user_token,
    refresh_token,
    session_id,
    user_id,
    preferred_network_id,
    session_expiry,
    login_in_progress,
    jar,                   \* value of cookie "s" in session.cookie_jar
    store,                 \* content of the active backing store
    writer,                \* another process saving to the same backing store
    now,                   \* datetime.now(), in ticks
    ticks,                 \* how often the clock has advanced
    last                   \* the operation that returned last

mem == <<user_token, refresh_token, session_id, user_id,
         preferred_network_id, session_expiry, login_in_progress>>
constructed == <<impl, use_keyring, cookie_file, user_identifier>>
config == <<constructed, cli>>
vars == <<impl, use_keyring, cookie_file, user_identifier, cli, entered, user_token,
          refresh_token, session_id, user_id, preferred_network_id, session_expiry,
          login_in_progress, jar, store, writer, now, ticks, last>>

\* ------------------------------------------------------------ Python values
None == "None"
NoDate == <<>>

\* bool(x) of an Optional[str]
Truthy(x) == x \notin {"None", ""}

\* bool(d) of an Optional[datetime]
HasDate(d) == Len(d) = 1

\* datetime.replace(microsecond=0)
TruncSeconds(t) == t - (t % SubSec)

\* datetime.isoformat(): seconds and sub-second part written separately
IsoFormat(d) == IF HasDate(d) THEN <<d[1] \div SubSec, d[1] % SubSec>> ELSE <<>>

\* a string that datetime.fromisoformat() rejects with ValueError
BadIso == <<-1, -1>>

\* TRUE iff datetime.fromisoformat() accepts the string
IsIsoFormat(s) == Len(s) = 2 /\ s[1] >= 0 /\ s[2] \in 0..(SubSec - 1)

\* fromisoformat that loses the sub-second part
FromIsoFormatWholeSeconds(s) == <<s[1] * SubSec>>

\* datetime.fromisoformat() of a well-formed string
FromIsoFormat(s) == <<s[1] * SubSec + s[2]>>

\* ---------------------------------------------------------------- storage
\* the JSON object written by _save_to_keyring / _save_to_file / _save_cookies
BlobOf(ut, rt, sid, uid, pnid, exp) ==
    [user_token |-> ut, refresh_token |-> rt, session_id |-> sid,
     user_id |-> uid, preferred_network_id |-> pnid,
     session_expiry |-> IsoFormat(exp)]

\* a backing store (keyring entry or cookie file) is absent or holds a blob
Absent == [kind |-> "absent", data |-> BlobOf(None, None, None, None, None, NoDate)]
Stored(blob) == [kind |-> "blob", data |-> blob]

\* a backing store that holds no JSON object: an empty entry (a file of size
\* 0, an empty keyring password), one that cannot be read (permission denied,
\* locked keyring), one whose content is not valid JSON
Empty == [kind |-> "empty", data |-> Absent.data]
Unreadable == [kind |-> "unreadable", data |-> Absent.data]
InvalidJson == [kind |-> "invalid_json", data |-> Absent.data]

\* the session fields of a client, as one value
Session(ut, rt, sid, uid, pnid, exp) ==
    [user_token |-> ut, refresh_token |-> rt, session_id |-> sid,
     user_id |-> uid, preferred_network_id |-> pnid, session_expiry |-> exp]

\* the JSON object a client holding session s writes
SessionBlob(s) ==
    BlobOf(s.user_token, s.refresh_token, s.session_id, s.user_id,
           s.preferred_network_id, s.session_expiry)

\* AuthAPI._save_authentication_data: the store after saving the given fields
SaveAuthenticationData(ut, rt, sid, uid, pnid, exp) ==
    IF use_keyring THEN Stored(BlobOf(ut, rt, sid, uid, pnid, exp))
    ELSE IF cookie_file THEN Stored(BlobOf(ut, rt, sid, uid, pnid, exp))
    ELSE store

\* EeroAPI._save_cookies
SaveCookies(ut, rt, sid, uid, pnid, exp) ==
    IF cookie_file THEN Stored(BlobOf(ut, rt, sid, uid, pnid, exp)) ELSE store

\* TRUE iff some backend is active for this client
HasBackend == use_keyring \/ cookie_file

\* ------------------------------------------------------------ authentication
\* is_authenticated that forgets to compare the expiry with the clock
IsAuthenticatedIgnoringClock(sid, exp, t) == Truthy(sid) /\ HasDate(exp)

\* AuthAPI.is_authenticated at clock reading t
AuthIsAuthenticatedAt(sid, exp, t) ==
    IF Truthy(sid) /\ HasDate(exp)
    THEN IF t > exp[1] THEN FALSE ELSE TRUE
    ELSE FALSE

\* EeroAPI.is_authenticated (standalone client)
LegacyIsAuthenticated(ut, sid) == Truthy(ut) /\ Truthy(sid)

\* the is_authenticated property of the constructed client
is_authenticated ==
    IF impl = "AuthAPI"
    THEN AuthIsAuthenticatedAt(session_id, session_expiry, now)
    ELSE LegacyIsAuthenticated(user_token, session_id)

\* ------------------------------------------------------------------- results
\* an exception: its class, the fixed part of its message, the status code
\* it carries (0 when it has none), the response text quoted in its message
\* and whether its message names the URL of the request
NoExc == [type |-> "none", msg |-> "", status_code |-> 0, body |-> "", url |-> FALSE]
Exc(t, m, s) == [type |-> t, msg |-> m, status_code |-> s, body |-> "", url |-> FALSE]
ExcWithBody(t, m, s, b) ==
    [type |-> t, msg |-> m, status_code |-> s, body |-> b, url |-> FALSE]
ExcWithUrl(t, m, s, b) ==
    [type |-> t, msg |-> m, status_code |-> s, body |-> b, url |-> TRUE]
NoResp == [kind |-> "none", status |-> 0, json |-> FALSE, invalid_code |-> FALSE,
           user_token |-> "None", session_token |-> "None",
           refresh_token |-> "None", nets |-> [networks |-> <<>>, data |-> <<>>]]

\* a set of HTTP headers: the set of its <<name, value>> pairs
NoHeaders == {}

\* const.DEFAULT_HEADERS, the default header set of both clients
DEFAULT_HEADERS == {<<"H1", "default">>, <<"H2", "default">>}

\* merged = defaults.copy(); merged.update(headers)
MergeHeaders(defaults, headers) ==
    headers \cup { d \in defaults : \A h \in headers : h[1] # d[1] }

\* the headers BaseAPI._request sends for the headers of its caller: kwargs goes
\* to session.request as it came (line 116), self._headers is not read
BaseRequestHeaders(headers) == headers

\* the headers EeroAPI._request sends for the headers of its caller
\* (lines 472-474)
LegacyRequestHeaders(headers) == MergeHeaders(DEFAULT_HEADERS, headers)

\* the headers of the request of an operation of the session: AuthAPI passes
\* no headers to the transport, EeroAPI passes self._headers to session.post
OperationHeaders(nreq) ==
    IF nreq = 0 THEN NoHeaders
    ELSE IF impl = "AuthAPI" THEN BaseRequestHeaders(NoHeaders)
    ELSE DEFAULT_HEADERS

\* what the last operation did: its return value (as Python prints it), the
\* exception it raised, the number of HTTP requests it sent, the answer it
\* got, the identifier it sent (<<>> when it sent none), the headers its
\* caller supplied and the headers of the request it sent
Result(op, ret, exc, nreq, resp) ==
    [op |-> op, ret |-> ret, exc |-> exc, nreq |-> nreq,
     resp |-> [kind |-> resp.kind, status |-> resp.status,
               json |-> resp.json, invalid_code |-> resp.invalid_code,
               user_token |-> resp.user_token,
               session_token |-> resp.session_token,
               refresh_token |-> resp.refresh_token,
               nets |-> resp.nets],
     sent |-> <<>>,
     caller_headers |-> NoHeaders,
     headers |-> OperationHeaders(nreq)]

\* ------------------------------------------------------------ server answers
\* the "data" object of a verification answer: the networks of the new format
\* (data.networks.data) and of the old format (data.data); a network entry has
\* an id and a url, the url split at "/" (<<>> when the entry has no url)
NoUrl == <<>>
NetworkEntries ==
    { [id |-> "N1", url |-> NoUrl],
      [id |-> None, url |-> <<"", "2.2", "networks", "N1">>],
      [id |-> None, url |-> <<"", "2.2", "networks", "N1", "">>],
      [id |-> None, url |-> NoUrl] }
NoNetworks == [networks |-> <<>>, data |-> <<>>]
VerifyData ==
    {NoNetworks}
    \cup { [networks |-> <<e>>, data |-> <<>>] : e \in NetworkEntries }
    \cup { [networks |-> <<>>, data |-> <<e>>] : e \in {[id |-> "N1", url |-> NoUrl]} }

\* an HTTP answer, or a transport fault
Answer(kind, status, json, bad, ut, st, rt, nets) ==
    [kind |-> kind, status |-> status, json |-> json, invalid_code |-> bad,
     user_token |-> ut, session_token |-> st, refresh_token |-> rt, nets |-> nets]

\* answers that are not a well-formed 200: error statuses (a 401 may or may
\* not name an invalid code), a 200 whose body is not JSON, transport faults
FailureAnswers ==
    { Answer("http", s, TRUE, FALSE, None, None, None, NoNetworks) : s \in {401, 404, 429, 500} }
    \cup { Answer("http", 401, TRUE, TRUE, None, None, None, NoNetworks),
           Answer("http", 200, FALSE, FALSE, None, None, None, NoNetworks),
           Answer("timeout", 0, FALSE, FALSE, None, None, None, NoNetworks),
           Answer("neterr", 0, FALSE, FALSE, None, None, None, NoNetworks) }

\* POST /login
LoginAnswers ==
    FailureAnswers
    \cup { Answer("http", 200, TRUE, FALSE, t, None, None, NoNetworks) : t \in {None, "", "T1"} }

\* POST /login/verify
VerifyAnswers ==
    FailureAnswers
    \cup { Answer("http", 200, TRUE, FALSE, None, None, None, d) : d \in VerifyData }

\* POST /login/resend, POST /logout
PlainAnswers ==
    FailureAnswers \cup { Answer("http", 200, TRUE, FALSE, None, None, None, NoNetworks) }

\* POST /account/refresh
RefreshAnswers ==
    FailureAnswers
    \cup { Answer("http", 200, TRUE, FALSE, None, st, rt, NoNetworks) :
             st \in {None, "S1"}, rt \in {None, "R1"} }

\* ------------------------------------------------------------------ transport
\* response.text(): the body of an answer
ResponseText(resp) ==
    IF resp.kind # "http" THEN ""
    ELSE IF resp.invalid_code THEN "{\"error\": \"invalid code\"}"
    ELSE IF resp.json THEN "{}"
    ELSE "<html>"

\* a transport that has no branch for status 429
IsRateLimitedNever(status) == FALSE

\* BaseAPI._request line 143
IsRateLimited(status) == status = 429

\* BaseAPI._request: the outcome of one request, either the parsed body
\* (ok) or the typed exception it raises
Request(resp) ==
    IF resp.kind = "timeout"
    THEN [ok |-> FALSE, exc |-> Exc("EeroTimeoutException", "Request timed out", 0)]
    ELSE IF resp.kind = "neterr"
    THEN [ok |-> FALSE, exc |-> Exc("EeroNetworkException", "Network error", 0)]
    ELSE IF resp.status = 200
    THEN IF resp.json
         THEN [ok |-> TRUE, exc |-> NoExc]
         ELSE [ok |-> FALSE,
               exc |-> ExcWithBody("EeroAPIException", "Invalid JSON response", 200,
                                   ResponseText(resp))]
    ELSE IF resp.status = 401
    THEN [ok |-> FALSE,
          exc |-> ExcWithBody("EeroAuthenticationException", "Authentication failed", 0,
                              ResponseText(resp))]
    ELSE IF resp.status = 404
    THEN [ok |-> FALSE,
          exc |-> ExcWithUrl("EeroAPIException", "Resource not found", 404,
                             ResponseText(resp))]
    ELSE IF IsRateLimited(resp.status)
    THEN [ok |-> FALSE, exc |-> Exc("EeroRateLimitException", "Rate limit exceeded", 0)]
    ELSE [ok |-> FALSE,
          exc |-> ExcWithBody("EeroAPIException", "API error", resp.status,
                              ResponseText(resp))]

\* BaseAPI._request lines 98-102: the cookie "s" after a request with auth_token
JarWithAuth(j, auth_token) == IF Truthy(auth_token) THEN auth_token ELSE j

\* AuthAPI._extract_network_id_from_response
ExtractNetworkId(response_data) ==
    LET networks == IF response_data.networks # <<>>
                    THEN response_data.networks
                    ELSE response_data.data
    IN IF networks = <<>> THEN None
       ELSE LET network == networks[1]
            IN IF Truthy(network.id) THEN network.id
               ELSE IF network.url # NoUrl
                    THEN network.url[Len(network.url)]
                    ELSE None

\* str.rstrip("/") on a url split at "/": trailing empty segments are dropped
RECURSIVE RStripSlash(_)
RStripSlash(u) ==
    IF Len(u) > 1 /\ u[Len(u)] = ""
    THEN RStripSlash(SubSeq(u, 1, Len(u) - 1))
    ELSE u

\* ------------------------------------------------------------------- helpers
SetMem(ut, rt, sid, uid, pnid, exp, lip) ==
    /\ user_token' = ut
    /\ refresh_token' = rt
    /\ session_id' = sid
    /\ user_id' = uid
    /\ preferred_network_id' = pnid
    /\ session_expiry' = exp
    /\ login_in_progress' = lip

\* ---------------------------------------------------------------------- Init
StartTime == LoginWindow

\* blobs an earlier run may have left in the backing store: a pending login,
\* sessions with and without refresh token, expired or not, and a cleared one
InitBlobs ==
    { Stored(BlobOf("T0", None, None, None, None, <<StartTime + LoginWindow>>)),
      Stored(BlobOf("T0", None, "T0", None, "N0", <<StartTime + LoginWindow>>)),
      Stored(BlobOf("T0", "R0", "T0", None, "N0", <<StartTime - 1>>)),
      Stored(BlobOf(None, "R0", "S0", None, "N0", <<StartTime + LoginWindow>>)),
      Stored(BlobOf(None, "R0", "S0", None, None, NoDate)),
      Stored(BlobOf(None, None, None, None, "N0", NoDate)) }

\* an identifier is the sequence of its characters; an email address
Email == <<"a", "@", "b">>

\* no other process is saving
Idle == [pc |-> "idle", session |-> Session(None, None, None, None, None, NoDate),
         prev |-> Absent]

\* the constructor arguments: which client, which backend
Constructed ==
    /\ impl \in {"AuthAPI", "EeroAPI"}
    /\ use_keyring \in (IF impl = "AuthAPI" THEN BOOLEAN ELSE {FALSE})
    /\ cookie_file \in (IF use_keyring THEN {TRUE} ELSE BOOLEAN)

\* the CLI's interactive_login is not running
NoCli == [pc |-> "none", attempts |-> 0, logins |-> 0, verifies |-> 0, ret |-> None]

\* AuthAPI.__init__ / EeroAPI.__init__: the client before __aenter__
FreshClient ==
    /\ cli = NoCli
    /\ entered = FALSE
    /\ user_token = None
    /\ refresh_token = None
    /\ session_id = None
    /\ user_id = None
    /\ preferred_network_id = None
    /\ session_expiry = NoDate
    /\ login_in_progress = FALSE
    /\ jar = None
    /\ now = StartTime
    /\ ticks = 0
    /\ last = Result("init", None, NoExc, 0, NoResp)

\* AuthAPI is constructed with its default backend, the keyring, or with no
\* backend at all: while the store is absent or holds a well-formed blob the
\* keyring and the cookie file are read and written alike (lines 106-118)
DefaultBackend == (impl = "AuthAPI" /\ cookie_file) => use_keyring

Init ==
    /\ Constructed
    /\ DefaultBackend
    /\ user_identifier = Email
    /\ store \in (IF HasBackend THEN {Absent} \cup InitBlobs ELSE {Absent})
    /\ writer = Idle
    /\ FreshClient

\* ------------------------------------------------------------------- actions
\* the clock advances between two operations
Tick ==
    /\ ticks < MaxTicks
    /\ \E d \in {1, SessionLifetime} : now' = now + d
    /\ ticks' = ticks + 1
    /\ last' = Result("tick", None, NoExc, 0, NoResp)
    /\ UNCHANGED <<config, writer, entered, mem, jar, store>>

\* the exception that leaves AuthAPI._load_authentication_data: the keyring
\* loader catches every Exception (line 147), the file loader catches only
\* FileNotFoundError and JSONDecodeError (line 197)
LoadError(st) ==
    IF use_keyring \/ ~cookie_file THEN NoExc
    ELSE IF st.kind = "unreadable"
    THEN Exc("PermissionError", "Permission denied", 0)
    ELSE IF st.kind = "blob" /\ st.data.session_expiry # <<>>
            /\ ~IsIsoFormat(st.data.session_expiry)
    THEN Exc("ValueError", "Invalid isoformat string", 0)
    ELSE NoExc

\* AuthAPI.__aenter__ -> _load_authentication_data -> _load_from_keyring /
\* _load_from_file; when the loader raises, the "async with" body is not run
AEnter ==
    /\ impl = "AuthAPI"
    /\ ~entered
    /\ entered' = (LoadError(store) = NoExc)
    /\ last' = Result("aenter", None, LoadError(store), 0, NoResp)
    /\ IF ~HasBackend \/ store.kind # "blob"
       THEN UNCHANGED <<mem, jar, store>>
       ELSE IF store.data.session_expiry # <<>> /\ ~IsIsoFormat(store.data.session_expiry)
       THEN \* fromisoformat raises after lines 126-130 / 176-180 have run
            /\ SetMem(store.data.user_token, store.data.refresh_token,
                      store.data.session_id, store.data.user_id,
                      store.data.preferred_network_id, session_expiry,
                      login_in_progress)
            /\ UNCHANGED <<jar, store>>
       ELSE LET exp == IF store.data.session_expiry # <<>>
                       THEN FromIsoFormat(store.data.session_expiry)
                       ELSE session_expiry
                expired == HasDate(exp) /\ exp[1] < now
            IN IF expired
               THEN /\ SetMem(store.data.user_token, store.data.refresh_token, None,
                              store.data.user_id, store.data.preferred_network_id,
                              NoDate, login_in_progress)
                    /\ store' = SaveAuthenticationData(
                                   store.data.user_token, store.data.refresh_token, None,
                                   store.data.user_id, store.data.preferred_network_id, NoDate)
                    /\ jar' = jar
               ELSE /\ SetMem(store.data.user_token, store.data.refresh_token,
                              store.data.session_id, store.data.user_id,
                              store.data.preferred_network_id, exp, login_in_progress)
                    /\ jar' = IF Truthy(store.data.session_id) THEN store.data.session_id ELSE jar
                    /\ store' = store
    /\ UNCHANGED <<config, writer, now, ticks>>

\* a login that reports every failure as an authentication error
LoginErrorWrapsAll(exc) == Exc("EeroAuthenticationException", "Login failed", 0)

\* the exception AuthAPI.login raises for a failed request (lines 269-275):
\* an EeroAPIException is wrapped, every other exception propagates
LoginError(exc) ==
    IF exc.type = "EeroAPIException"
    THEN Exc("EeroAuthenticationException", "Login failed", 0)
    ELSE exc

\* the result of a login that sent ident as {"login": ident}
LoginResult(ident, ret, exc, nreq, resp) ==
    [Result("login", ret, exc, nreq, resp) EXCEPT !.sent = ident]

\* the body of AuthAPI.login; user_identifier goes into the request as it is
\* (line 254)
LoginCall ==
    \E resp \in LoginAnswers :
         LET out == Request(resp)
             \* lines 236-244: reset and save
             cleared == SaveAuthenticationData(None, None, None, user_id,
                                               preferred_network_id, NoDate)
         IN /\ jar' = None
            /\ IF out.ok
               THEN IF ~Truthy(resp.user_token)
                    THEN /\ SetMem(resp.user_token, None, None, user_id,
                                   preferred_network_id, NoDate, TRUE)
                         /\ store' = cleared
                         /\ last' = LoginResult(user_identifier, "False", NoExc, 1, resp)
                    ELSE /\ SetMem(resp.user_token, None, None, user_id,
                                   preferred_network_id, NoDate, TRUE)
                         /\ store' = SaveAuthenticationData(
                                        resp.user_token, None, None, user_id,
                                        preferred_network_id, NoDate)
                         /\ last' = LoginResult(user_identifier, "True", NoExc, 1, resp)
               ELSE /\ SetMem(None, None, None, user_id,
                              preferred_network_id, NoDate, TRUE)
                    /\ store' = cleared
                    /\ last' = LoginResult(user_identifier, None, LoginError(out.exc), 1, resp)

\* AuthAPI.login
Login ==
    /\ impl = "AuthAPI"
    /\ entered
    /\ LoginCall
    /\ UNCHANGED <<config, writer, entered, now, ticks>>

\* a precondition that tests "is None" instead of emptiness
HasUserTokenNotNone(ut) == ut # None

\* the precondition of verify and resend_verification_code (lines 335, 415)
HasUserToken(ut) == Truthy(ut)

\* the precondition of refresh_session (line 491)
HasRefreshToken(rt) == Truthy(rt)

\* the exception AuthAPI.verify raises for a failed request (lines 388-403)
VerifyError(exc) ==
    IF exc.type = "EeroAPIException"
    THEN IF exc.status_code = 401
         THEN Exc("EeroAuthenticationException", "Verification code incorrect", 0)
         ELSE Exc("EeroAuthenticationException", "Verification failed", 0)
    ELSE exc

\* an expiry that keeps the sub-second part of the clock reading
NewSessionExpiryUntruncated(t) == <<t + SessionLifetime>>

\* the session expiry set by a successful verify or refresh at clock reading t
NewSessionExpiry(t) == <<TruncSeconds(t) + SessionLifetime>>

\* a verify that forgets to promote the user token
PromotedNothing(ut) == None

\* the session id a successful verify installs (line 355)
PromotedToken(ut) == ut

\* the body of AuthAPI.verify
VerifyCall ==
    IF ~HasUserToken(user_token)
       THEN /\ last' = Result("verify", None,
                         Exc("EeroAuthenticationException", "No user token available", 0),
                         0, NoResp)
            /\ UNCHANGED <<mem, jar, store>>
       ELSE \E resp \in VerifyAnswers :
              LET out == Request(resp)
                  network_id == ExtractNetworkId(resp.nets)
                  sid == PromotedToken(user_token)
                  pnid == IF Truthy(network_id) THEN network_id
                          ELSE preferred_network_id
                  exp == NewSessionExpiry(now)
              IN IF out.ok
                 THEN /\ SetMem(user_token, refresh_token, sid, user_id, pnid, exp, FALSE)
                      /\ jar' = sid
                      /\ store' = SaveAuthenticationData(user_token, refresh_token,
                                                         sid, user_id, pnid, exp)
                      /\ last' = Result("verify", "True", NoExc, 1, resp)
                 ELSE /\ jar' = JarWithAuth(user_token, user_token)
                      /\ last' = Result("verify", None, VerifyError(out.exc), 1, resp)
                      /\ UNCHANGED <<mem, store>>

\* AuthAPI.verify
Verify ==
    /\ impl = "AuthAPI"
    /\ entered
    /\ VerifyCall
    /\ UNCHANGED <<config, writer, entered, now, ticks>>

\* the body of AuthAPI.resend_verification_code
ResendCall ==
    IF ~HasUserToken(user_token)
       THEN /\ last' = Result("resend_verification_code", None,
                         Exc("EeroAuthenticationException", "No user token available", 0),
                         0, NoResp)
            /\ jar' = jar
       ELSE \E resp \in PlainAnswers :
              LET out == Request(resp)
              IN /\ jar' = JarWithAuth(user_token, user_token)
                 /\ last' = IF out.ok
                            THEN Result("resend_verification_code", "True", NoExc, 1, resp)
                            ELSE IF out.exc.type = "EeroAPIException"
                            THEN Result("resend_verification_code", "False", NoExc, 1, resp)
                            ELSE Result("resend_verification_code", None, out.exc, 1, resp)

\* AuthAPI.resend_verification_code
ResendVerificationCode ==
    /\ impl = "AuthAPI"
    /\ entered
    /\ ResendCall
    /\ UNCHANGED <<config, writer, entered, mem, store, now, ticks>>

\* a logout whose handler catches the authentication error only
LogoutCatchesAuthOnly(exc) == exc.type = "EeroAuthenticationException"

\* what AuthAPI.logout does with a failed request (lines 475-479): TRUE iff the
\* failure is turned into the return value False
LogoutSwallows(exc) == exc.type = "EeroAPIException"

\* AuthAPI.logout
Logout ==
    /\ impl = "AuthAPI"
    /\ entered
    /\ IF ~is_authenticated
       THEN /\ last' = Result("logout", "False", NoExc, 0, NoResp)
            /\ UNCHANGED <<mem, jar, store>>
       ELSE \E resp \in PlainAnswers :
              LET out == Request(resp)
              IN IF out.ok
                 THEN /\ SetMem(None, None, None, user_id, preferred_network_id,
                                NoDate, login_in_progress)
                      /\ jar' = None
                      /\ store' = SaveAuthenticationData(None, None, None, user_id,
                                                         preferred_network_id, NoDate)
                      /\ last' = Result("logout", "True", NoExc, 1, resp)
                 ELSE /\ jar' = JarWithAuth(jar, session_id)
                      /\ last' = IF LogoutSwallows(out.exc)
                                 THEN Result("logout", "False", NoExc, 1, resp)
                                 ELSE Result("logout", None, out.exc, 1, resp)
                      /\ UNCHANGED <<mem, store>>
    /\ UNCHANGED <<config, writer, entered, now, ticks>>

\* what AuthAPI.refresh_session does with a failed request (lines 515-527):
\* TRUE iff the failure clears the tokens and becomes the return value False
RefreshClears(exc) == exc.type = "EeroAPIException"

\* a refresh that keeps no refresh token
InstalledRefreshTokenDropped(resp) == None

\* the refresh token AuthAPI.refresh_session installs (line 502)
InstalledRefreshToken(resp) == resp.refresh_token

\* a refresh that installs the new session and then reports a failure
RefreshOutcomeNeverTrue(resp) ==
    IF Request(resp).ok THEN "False"
    ELSE IF RefreshClears(Request(resp).exc) THEN "False" ELSE "raise"

\* how AuthAPI.refresh_session ends for an answer: it returns True, returns
\* False, or lets the exception of the transport through ("raise")
RefreshOutcome(resp) ==
    IF Request(resp).ok
    THEN IF Truthy(resp.session_token) THEN "True" ELSE "False"
    ELSE IF RefreshClears(Request(resp).exc) THEN "False" ELSE "raise"

\* what AuthAPI.refresh_session (lines 494-523) does to the session, the
\* cookie jar and the backing store at clock reading t
RefreshEffect(resp, t) ==
    LET out == Request(resp)
        sid == resp.session_token
        rt == InstalledRefreshToken(resp)
        exp == NewSessionExpiry(t)
    IN IF out.ok
       THEN IF Truthy(sid)
            THEN /\ SetMem(user_token, rt, sid, user_id, preferred_network_id,
                           exp, login_in_progress)
                 /\ jar' = sid
                 /\ store' = SaveAuthenticationData(user_token, rt, sid, user_id,
                                                    preferred_network_id, exp)
            ELSE /\ SetMem(user_token, rt, sid, user_id, preferred_network_id,
                           exp, login_in_progress)
                 /\ UNCHANGED <<jar, store>>
       ELSE IF RefreshClears(out.exc)
            THEN /\ SetMem(None, None, None, user_id, preferred_network_id,
                           NoDate, login_in_progress)
                 /\ store' = SaveAuthenticationData(None, None, None, user_id,
                                                    preferred_network_id, NoDate)
                 /\ jar' = jar
            ELSE UNCHANGED <<mem, jar, store>>

\* the body of AuthAPI.refresh_session past its precondition, run at clock
\* reading t on behalf of operation op; asToken: op returns the token (or
\* None) instead of True (or False)
DoRefresh(op, resp, t, asToken) ==
    /\ RefreshEffect(resp, t)
    /\ last' = IF RefreshOutcome(resp) = "True"
               THEN Result(op, IF asToken THEN resp.session_token ELSE "True",
                           NoExc, 1, resp)
               ELSE IF RefreshOutcome(resp) = "False"
               THEN Result(op, IF asToken THEN None ELSE "False", NoExc, 1, resp)
               ELSE Result(op, None, Request(resp).exc, 1, resp)

\* AuthAPI.refresh_session
RefreshSession ==
    /\ impl = "AuthAPI"
    /\ entered
    /\ IF ~HasRefreshToken(refresh_token)
       THEN /\ last' = Result("refresh_session", None,
                         Exc("EeroAuthenticationException", "No refresh token available", 0),
                         0, NoResp)
            /\ UNCHANGED <<mem, jar, store>>
       ELSE \E resp \in RefreshAnswers : DoRefresh("refresh_session", resp, now, FALSE)
    /\ UNCHANGED <<config, writer, entered, now, ticks>>

\* AuthAPI.ensure_authenticated lines 539-543, at the second clock reading t
NeedsRefresh(exp, rt, t) == HasDate(exp) /\ t > exp[1] /\ Truthy(rt)

\* the body of AuthAPI.ensure_authenticated; the method reads the clock twice
\* (lines 535 and 541), and the clock may advance between the two readings
DoEnsure(op, asToken) ==
    \E t2 \in {now} \cup (IF ticks < MaxTicks THEN {now + 1} ELSE {}) :
      /\ now' = t2
      /\ ticks' = IF t2 = now THEN ticks ELSE ticks + 1
      /\ IF ~AuthIsAuthenticatedAt(session_id, session_expiry, now)
         THEN /\ last' = Result(op, IF asToken THEN None ELSE "False", NoExc, 0, NoResp)
              /\ UNCHANGED <<mem, jar, store>>
         ELSE IF NeedsRefresh(session_expiry, refresh_token, t2)
         THEN \E resp \in RefreshAnswers : DoRefresh(op, resp, t2, asToken)
         ELSE /\ last' = Result(op, IF asToken THEN session_id ELSE "True", NoExc, 0, NoResp)
              /\ UNCHANGED <<mem, jar, store>>

\* AuthAPI.ensure_authenticated
EnsureAuthenticated ==
    /\ impl = "AuthAPI"
    /\ entered
    /\ DoEnsure("ensure_authenticated", FALSE)
    /\ UNCHANGED <<config, writer, entered>>

\* AuthAPI.get_auth_token
GetAuthToken ==
    /\ impl = "AuthAPI"
    /\ entered
    /\ DoEnsure("get_auth_token", TRUE)
    /\ UNCHANGED <<config, writer, entered>>

\* GET networks, GET /account
ResourceAnswers == PlainAnswers

\* the result of a resource call whose request got the answer resp: the data
\* of the answer, or the exception of the transport
Sent(op, resp, nreq) ==
    IF Request(resp).ok
    THEN Result(op, "data", NoExc, nreq, resp)
    ELSE Result(op, None, Request(resp).exc, nreq, resp)

\* NetworksAPI.get_networks lines 38-39
RaisesWithoutToken(auth_token) == ~Truthy(auth_token)

\* a resource call past get_auth_token(): with checksToken it raises when the
\* token is empty (networks.py:38-39), without it the request is sent with
\* auth_token = None (client.py:190-192); nreq counts the refresh request
ResourceRequest(op, checksToken, auth_token, nreq) ==
    IF checksToken /\ RaisesWithoutToken(auth_token)
    THEN last' = Result(op, None,
                        Exc("EeroAuthenticationException", "Not authenticated", 0),
                        nreq, NoResp)
    ELSE \E resp \in ResourceAnswers : last' = Sent(op, resp, nreq + 1)

\* a resource call: get_auth_token() (ensure_authenticated, lines 535-557,
\* with its two clock readings), then the request
ResourceCall(op, checksToken) ==
    \E t2 \in {now} \cup (IF ticks < MaxTicks THEN {now + 1} ELSE {}) :
      /\ now' = t2
      /\ ticks' = IF t2 = now THEN ticks ELSE ticks + 1
      /\ IF ~AuthIsAuthenticatedAt(session_id, session_expiry, now)
         THEN /\ ResourceRequest(op, checksToken, None, 0)
              /\ UNCHANGED <<mem, jar, store>>
         ELSE IF NeedsRefresh(session_expiry, refresh_token, t2)
         THEN \E r \in RefreshAnswers :
                /\ RefreshEffect(r, t2)
                /\ IF RefreshOutcome(r) = "raise"
                   THEN last' = Result(op, None, Request(r).exc, 1, NoResp)
                   ELSE ResourceRequest(op, checksToken,
                                        IF RefreshOutcome(r) = "True"
                                        THEN r.session_token ELSE None, 1)
         ELSE /\ ResourceRequest(op, checksToken, session_id, 0)
              /\ jar' = JarWithAuth(jar, session_id)
              /\ UNCHANGED <<mem, store>>

\* NetworksAPI.get_networks
GetNetworks ==
    /\ impl = "AuthAPI"
    /\ entered
    /\ ResourceCall("get_networks", TRUE)
    /\ UNCHANGED <<config, writer, entered>>

\* EeroClient.get_account with no valid cache entry (or refresh_cache=True)
GetAccount ==
    /\ impl = "AuthAPI"
    /\ entered
    /\ ResourceCall("get_account", FALSE)
    /\ UNCHANGED <<config, writer, entered>>

\* a clear that flips the login flag instead of resetting it
ClearedLoginInProgressFlipped(lip) == ~lip

\* the login flag after clear_auth_data (line 565)
ClearedLoginInProgress(lip) == FALSE

\* the body of AuthAPI.clear_auth_data
ClearCall ==
    /\ SetMem(None, None, None, user_id, preferred_network_id, NoDate,
              ClearedLoginInProgress(login_in_progress))
    /\ jar' = None
    /\ store' = SaveAuthenticationData(None, None, None, user_id,
                                       preferred_network_id, NoDate)
    /\ last' = Result("clear_auth_data", None, NoExc, 0, NoResp)

\* AuthAPI.clear_auth_data
ClearAuthData ==
    /\ impl = "AuthAPI"
    /\ entered
    /\ ClearCall
    /\ UNCHANGED <<config, writer, entered, now, ticks>>

\* AuthAPI.preferred_network_id setter: the coroutine returned by
\* _save_authentication_data() is not awaited, so nothing is written
SetPreferredNetworkId ==
    /\ impl = "AuthAPI"
    /\ entered
    /\ \E value \in {"N1"} :
         SetMem(user_token, refresh_token, session_id, user_id, value,
                session_expiry, login_in_progress)
    /\ last' = Result("set_preferred_network_id", None, NoExc, 0, NoResp)
    /\ UNCHANGED <<config, writer, entered, jar, store, now, ticks>>

\* ------------------------------------------- standalone client (eero/api.py)
\* the exception the standalone client raises for a transport fault: a
\* connection failure is wrapped (except aiohttp.ClientError), a timeout is
\* not caught and leaves as asyncio.TimeoutError
LegacyFault(resp, during) ==
    IF resp.kind = "neterr"
    THEN Exc("EeroNetworkException", during, 0)
    ELSE Exc("asyncio.TimeoutError", "", 0)

\* EeroAPI.__aenter__ -> _load_cookies: a missing, unreadable or empty file
\* and invalid JSON make it return early; an unparsable expiry becomes None
LegacyAEnter ==
    /\ impl = "EeroAPI"
    /\ ~entered
    /\ entered' = TRUE
    /\ last' = Result("aenter", None, NoExc, 0, NoResp)
    /\ IF ~cookie_file \/ store.kind # "blob"
       THEN UNCHANGED mem
       ELSE IF ~Truthy(store.data.user_token) /\ ~Truthy(store.data.session_id)
       THEN SetMem(store.data.user_token, store.data.refresh_token, store.data.session_id,
                   store.data.user_id, store.data.preferred_network_id,
                   session_expiry, login_in_progress)
       ELSE LET exp == IF store.data.session_expiry = <<>>
                       THEN session_expiry
                       ELSE IF IsIsoFormat(store.data.session_expiry)
                       THEN FromIsoFormat(store.data.session_expiry)
                       ELSE NoDate
            IN IF HasDate(exp) /\ exp[1] < now
               THEN SetMem(None, store.data.refresh_token, None, store.data.user_id,
                           store.data.preferred_network_id, exp, login_in_progress)
               ELSE SetMem(store.data.user_token, store.data.refresh_token, store.data.session_id,
                           store.data.user_id, store.data.preferred_network_id, exp,
                           login_in_progress)
    /\ UNCHANGED <<config, writer, jar, store, now, ticks>>

\* the session expiry EeroAPI.login sets at clock reading t (line 247)
LoginExpiry(t) == <<t + LoginWindow>>

\* the characters of the character classes of the pattern of line 202
Digits == {"0", "1", "2", "3", "4", "5", "6", "7", "8", "9"}
PhonePunctuation == {" ", "-", "(", ")"}

\* re.match(r"^\+?[0-9\s\-\(\)]+$", user_identifier)
LooksLikePhone(u) ==
    LET rest == IF u # <<>> /\ u[1] = "+" THEN Tail(u) ELSE u
    IN /\ Len(rest) >= 1
       /\ \A i \in 1..Len(rest) : rest[i] \in Digits \cup PhonePunctuation

\* re.sub(r"[^0-9]", "", user_identifier)
RECURSIVE OnlyDigits(_)
OnlyDigits(u) ==
    IF u = <<>> THEN <<>>
    ELSE IF Head(u) \in Digits THEN <<Head(u)>> \o OnlyDigits(Tail(u))
    ELSE OnlyDigits(Tail(u))

\* the length at which EeroAPI.login takes the number for a US number
NationalDigits == 10

\* the identifier EeroAPI.login sends (lines 201-210)
CleanIdentifier(u) ==
    IF LooksLikePhone(u)
    THEN LET cleaned_number == OnlyDigits(u)
         IN IF Len(cleaned_number) = NationalDigits
            THEN <<"+", "1">> \o cleaned_number
            ELSE IF u[1] # "+"
            THEN <<"+">> \o cleaned_number
            ELSE u
    ELSE u

\* EeroAPI.login
LegacyLogin ==
    /\ impl = "EeroAPI"
    /\ entered
    /\ \E resp \in LoginAnswers :
         IF resp.kind # "http"
         THEN /\ SetMem(None, None, None, user_id, preferred_network_id,
                        session_expiry, login_in_progress)
              /\ store' = store
              /\ last' = LoginResult(CleanIdentifier(user_identifier), None,
                                LegacyFault(resp, "Network error during login"), 1, resp)
         ELSE IF resp.status # 200
         THEN /\ SetMem(None, None, None, user_id, preferred_network_id,
                        session_expiry, login_in_progress)
              /\ store' = store
              /\ last' = LoginResult(CleanIdentifier(user_identifier), None,
                                Exc("EeroAuthenticationException", "Login failed", 0),
                                1, resp)
         ELSE IF resp.json /\ Truthy(resp.user_token)
         THEN /\ SetMem(resp.user_token, None, None, user_id, preferred_network_id,
                        LoginExpiry(now), login_in_progress)
              /\ store' = SaveCookies(resp.user_token, None, None, user_id,
                                      preferred_network_id, LoginExpiry(now))
              /\ last' = LoginResult(CleanIdentifier(user_identifier), "True", NoExc, 1, resp)
         ELSE /\ SetMem(IF resp.json THEN resp.user_token ELSE None, None, None,
                        user_id, preferred_network_id, session_expiry,
                        login_in_progress)
              /\ store' = store
              /\ last' = LoginResult(CleanIdentifier(user_identifier), "False", NoExc, 1, resp)
    /\ UNCHANGED <<config, writer, entered, jar, now, ticks>>

\* the network id EeroAPI.verify takes from an answer (lines 304-317):
\* only the new format and only the url of the first network are read
LegacyNetworkId(resp, current) ==
    IF resp.json /\ resp.nets.networks # <<>> /\ resp.nets.networks[1].url # NoUrl
    THEN LET parts == RStripSlash(resp.nets.networks[1].url)
         IN parts[Len(parts)]
    ELSE current

\* EeroAPI.verify
LegacyVerify ==
    /\ impl = "EeroAPI"
    /\ entered
    /\ IF ~Truthy(user_token)
       THEN /\ last' = Result("verify", None,
                         Exc("EeroAuthenticationException", "No user token available", 0),
                         0, NoResp)
            /\ UNCHANGED <<mem, store>>
       ELSE \E resp \in VerifyAnswers :
              IF resp.kind # "http"
              THEN /\ last' = Result("verify", None,
                                LegacyFault(resp, "Network error during verification"),
                                1, resp)
                   /\ UNCHANGED <<mem, store>>
              ELSE IF resp.status = 200
              THEN LET pnid == LegacyNetworkId(resp, preferred_network_id)
                       exp == NewSessionExpiry(now)
                   IN /\ SetMem(user_token, refresh_token, user_token, user_id,
                                pnid, exp, login_in_progress)
                      /\ store' = SaveCookies(user_token, refresh_token, user_token,
                                              user_id, pnid, exp)
                      /\ last' = Result("verify", "True", NoExc, 1, resp)
              ELSE /\ last' = Result("verify", None,
                                Exc("EeroAuthenticationException", "Verification failed", 0),
                                1, resp)
                   /\ UNCHANGED <<mem, store>>
    /\ UNCHANGED <<config, writer, entered, jar, now, ticks>>

\* EeroAPI.resend_verification_code
LegacyResendVerificationCode ==
    /\ impl = "EeroAPI"
    /\ entered
    /\ IF ~Truthy(user_token)
       THEN last' = Result("resend_verification_code", None,
                      Exc("EeroAuthenticationException", "No user token available", 0),
                      0, NoResp)
       ELSE \E resp \in PlainAnswers :
              last' = IF resp.kind # "http"
                      THEN Result("resend_verification_code", None,
                                  LegacyFault(resp, "Network error during resend"), 1, resp)
                      ELSE IF resp.status = 200
                      THEN Result("resend_verification_code", "True", NoExc, 1, resp)
                      ELSE Result("resend_verification_code", "False", NoExc, 1, resp)
    /\ UNCHANGED <<config, writer, entered, mem, jar, store, now, ticks>>

\* EeroAPI.logout
LegacyLogout ==
    /\ impl = "EeroAPI"
    /\ entered
    /\ IF ~LegacyIsAuthenticated(user_token, session_id)
       THEN /\ last' = Result("logout", "False", NoExc, 0, NoResp)
            /\ UNCHANGED <<mem, store>>
       ELSE \E resp \in PlainAnswers :
              IF resp.kind # "http"
              THEN /\ last' = Result("logout", None,
                                LegacyFault(resp, "Network error during logout"), 1, resp)
                   /\ UNCHANGED <<mem, store>>
              ELSE IF resp.status = 200
              THEN /\ SetMem(None, None, None, user_id, preferred_network_id,
                             NoDate, login_in_progress)
                   /\ store' = SaveCookies(None, None, None, user_id,
                                           preferred_network_id, NoDate)
                   /\ last' = Result("logout", "True", NoExc, 1, resp)
              ELSE /\ last' = Result("logout", "False", NoExc, 1, resp)
                   /\ UNCHANGED <<mem, store>>
    /\ UNCHANGED <<config, writer, entered, jar, now, ticks>>

\* ---------------------------------------------------------------------- Spec
Next ==
    \/ Tick
    \/ AEnter
    \/ Login
    \/ Verify
    \/ ResendVerificationCode
    \/ Logout
    \/ RefreshSession
    \/ EnsureAuthenticated
    \/ GetAuthToken
    \/ ClearAuthData
    \/ SetPreferredNetworkId
    \/ LegacyAEnter
    \/ LegacyLogin
    \/ LegacyVerify
    \/ LegacyResendVerificationCode
    \/ LegacyLogout

Spec == Init /\ [][Next]_vars

\* ------------------------------------------------------- login identifiers
\* a ten-digit national number, and the ways a caller may write it
TenDigits == <<"5", "5", "5", "1", "2", "3", "4", "5", "6", "7">>
WrittenNumbers ==
    { TenDigits,
      <<"(", "5", "5", "5", ")", " ", "1", "2", "3", "-", "4", "5", "6", "7">>,
      <<"+">> \o TenDigits,
      <<"1">> \o TenDigits,
      <<"+", "1">> \o TenDigits,
      <<"+", "1", " ", "5", "5", "5", "-", "1", "2", "3", "-", "4", "5", "6", "7">> }

\* every identifier of at most ShortLen characters over a small alphabet
ShortIdentifiers ==
    UNION { [1..k -> {"5", "-", "+", "a"}] : k \in 0..ShortLen }

\* the identifiers a caller may pass to login()
Identifiers == {Email} \cup WrittenNumbers \cup ShortIdentifiers

\* a client whose caller logs in with any of the identifiers
LoginInit ==
    /\ Constructed
    /\ user_identifier \in Identifiers
    /\ store = Absent
    /\ writer = Idle
    /\ FreshClient

LoginNext ==
    \/ AEnter
    \/ LegacyAEnter
    \/ Login
    \/ LegacyLogin

\* the start of a login, for every identifier
LoginSpec == LoginInit /\ [][LoginNext]_vars

\* ------------------------------------------------------------ the transport
\* the headers a caller of the transport may pass: none, one the defaults do
\* not name, one or two the defaults name as well
CallerHeaders ==
    { NoHeaders,
      {<<"H3", "caller">>},
      {<<"H1", "caller">>},
      {<<"H1", "caller">>, <<"H3", "caller">>},
      {<<"H1", "caller">>, <<"H2", "caller">>} }

\* the result of a call of the transport for a caller who passed headers
TransportResult(res, caller, sent) ==
    [res EXCEPT !.caller_headers = caller, !.headers = sent]

\* BaseAPI.get / post / put / delete -> BaseAPI._request, called with or
\* without an auth token and with headers among the keyword arguments
BaseRequest ==
    /\ impl = "AuthAPI"
    /\ entered
    /\ \E auth_token \in {None, session_id}, h \in CallerHeaders, resp \in ResourceAnswers :
         /\ jar' = JarWithAuth(jar, auth_token)
         /\ last' = TransportResult(Sent("request", resp, 1), h, BaseRequestHeaders(h))
    /\ UNCHANGED <<config, writer, entered, mem, store, now, ticks>>

\* EeroAPI._request lines 482-525: the exception for an answer (NoExc for a
\* 200 with a JSON body); the body of an error answer has no meta.error
LegacyRequestError(resp) ==
    IF resp.kind = "timeout" THEN Exc("EeroTimeoutException", "Request timed out", 0)
    ELSE IF resp.kind = "neterr" THEN Exc("EeroNetworkException", "Network error", 0)
    ELSE IF resp.status = 200
    THEN IF resp.json THEN NoExc
         ELSE ExcWithBody("EeroAPIException", "Invalid JSON response", 200,
                          ResponseText(resp))
    ELSE IF resp.status = 401
    THEN Exc("EeroAuthenticationException", "Authentication failed", 0)
    ELSE IF resp.status = 429
    THEN Exc("EeroRateLimitException", "Rate limit exceeded", 0)
    ELSE Exc("EeroAPIException", "API error", resp.status)

\* EeroAPI._request, called with headers among the keyword arguments
LegacyRequest ==
    /\ impl = "EeroAPI"
    /\ entered
    /\ IF ~LegacyIsAuthenticated(user_token, session_id)
       THEN last' = Result("request", None,
                           Exc("EeroAuthenticationException", "Not authenticated", 0),
                           0, NoResp)
       ELSE \E h \in CallerHeaders, resp \in ResourceAnswers :
              last' = TransportResult(
                         Result("request",
                                IF LegacyRequestError(resp) = NoExc THEN "data" ELSE None,
                                LegacyRequestError(resp), 1, resp),
                         h, LegacyRequestHeaders(h))
    /\ UNCHANGED <<config, writer, entered, mem, jar, store, now, ticks>>

TransportNext ==
    \/ AEnter
    \/ LegacyAEnter
    \/ Login
    \/ LegacyLogin
    \/ Verify
    \/ LegacyVerify
    \/ BaseRequest
    \/ LegacyRequest

\* a session is established and the transport is called with any headers
TransportSpec == Init /\ [][TransportNext]_vars

\* ------------------------------------------------------------ resource calls
\* the modular client and the resources it offers on top of the session
ResourceInit ==
    /\ Init
    /\ impl = "AuthAPI"

ResourceNext ==
    \/ Tick
    \/ AEnter
    \/ Login
    \/ Verify
    \/ Logout
    \/ GetNetworks
    \/ GetAccount

\* a session is established, used for resource calls, and ended
ResourceSpec == ResourceInit /\ [][ResourceNext]_vars

\* ------------------------------------------------- the shared backing store
\* sessions another client of the same backing store may hold when it saves:
\* a pending login of the standalone client (its expiry keeps the sub-second
\* part of the clock), a verified session about to expire, a cleared session
SavedSessions ==
    { Session("T2", None, None, None, None, <<StartTime + LoginWindow + 1>>),
      Session("T2", "R2", "T2", None, "N2", <<StartTime + 1>>),
      Session(None, None, None, None, "N2", NoDate) }

\* a JSON object whose session_expiry is not an ISO date
BadExpiryBlob ==
    [kind |-> "blob",
     data |-> [BlobOf("T0", "R0", "T0", None, "N0", NoDate)
                 EXCEPT !.session_expiry = BadIso]]

\* a client with a backend, whose backing store may hold anything
StorageInit ==
    /\ Constructed
    /\ HasBackend
    /\ user_identifier = Email
    /\ store \in {Absent, Empty, Unreadable, InvalidJson, BadExpiryBlob} \cup InitBlobs
    /\ writer = Idle
    /\ FreshClient

\* another client runs _save_to_keyring: keyring.set_password replaces the
\* entry in one step
OtherSaveToKeyring ==
    /\ use_keyring
    /\ writer.pc = "idle"
    /\ store.kind # "unreadable"
    /\ \E s \in SavedSessions :
         /\ writer' = [pc |-> "done", session |-> s, prev |-> store]
         /\ store' = Stored(SessionBlob(s))
    /\ last' = Result("other_save", None, NoExc, 0, NoResp)
    /\ UNCHANGED <<config, entered, mem, jar, now, ticks>>

\* another client runs _save_to_file / _save_cookies, first step:
\* open(cookie_file, "w") truncates the file
OtherOpenFile ==
    /\ ~use_keyring
    /\ cookie_file
    /\ writer.pc = "idle"
    /\ store.kind # "unreadable"
    /\ \E s \in SavedSessions :
         writer' = [pc |-> "open", session |-> s, prev |-> store]
    /\ store' = Empty
    /\ last' = Result("other_open", None, NoExc, 0, NoResp)
    /\ UNCHANGED <<config, entered, mem, jar, now, ticks>>

\* json.dump(cookies, f) writes the object in pieces; the buffer may reach the
\* file before the object is complete
OtherFlush ==
    /\ writer.pc = "open"
    /\ writer' = [writer EXCEPT !.pc = "partial"]
    /\ store' = InvalidJson
    /\ last' = Result("other_flush", None, NoExc, 0, NoResp)
    /\ UNCHANGED <<config, entered, mem, jar, now, ticks>>

\* the "with" block ends: the file is closed and holds the whole object
OtherClose ==
    /\ writer.pc \in {"open", "partial"}
    /\ writer' = [writer EXCEPT !.pc = "done"]
    /\ store' = Stored(SessionBlob(writer.session))
    /\ last' = Result("other_close", None, NoExc, 0, NoResp)
    /\ UNCHANGED <<config, entered, mem, jar, now, ticks>>

StorageNext ==
    \/ Tick
    \/ AEnter
    \/ LegacyAEnter
    \/ OtherSaveToKeyring
    \/ OtherOpenFile
    \/ OtherFlush
    \/ OtherClose

\* a client loading from a backing store that another client saves to
StorageSpec == StorageInit /\ [][StorageNext]_vars

\* ------------------------------------------- the CLI (eero/cli/auth.py)
\* max_attempts = 3
max_attempts == 3

\* a loop that runs once more than max_attempts allows
LoopContinuesOffByOne(attempts) == attempts <= max_attempts

\* the condition of the while loop (line 92)
LoopContinues(attempts) == attempts < max_attempts

\* the state of the run at the top of the loop: the loop is left when its
\* condition fails (lines 153-157), the first pass asks for the identifier and
\* logs in (line 94), every other pass goes on with the verification
LoopTop(c) ==
    IF ~LoopContinues(c.attempts) THEN [c EXCEPT !.pc = "done", !.ret = "False"]
    ELSE IF c.attempts = 0 THEN [c EXCEPT !.pc = "login"]
    ELSE [c EXCEPT !.pc = "verify"]

\* the frame of a step of interactive_login
CliFrame == UNCHANGED <<constructed, writer, entered, now, ticks>>

\* interactive_login is called on an entered client and no stored session is
\* reused (lines 28-88)
InteractiveLogin ==
    /\ impl = "AuthAPI"
    /\ entered
    /\ cli.pc = "none"
    /\ cli' = [cli EXCEPT !.pc = "clear"]
    /\ UNCHANGED <<mem, jar, store, last>>
    /\ CliFrame

\* lines 89-92: clear_auth_data(), then the loop is entered
CliClear ==
    /\ cli.pc = "clear"
    /\ ClearCall
    /\ cli' = LoopTop(cli)
    /\ CliFrame

\* lines 94-115: the identifier is asked for and login() is called; a login
\* that returns false or raises an EeroException ends the run
CliLogin ==
    /\ cli.pc = "login"
    /\ LoginCall
    /\ cli' = IF last'.exc # NoExc \/ last'.ret # "True"
              THEN [cli EXCEPT !.pc = "done", !.ret = "False", !.logins = @ + 1]
              ELSE [cli EXCEPT !.pc = "verify", !.logins = @ + 1]
    /\ CliFrame

\* lines 117-132: the code is asked for and verify() is called; after a failed
\* verification the attempt is counted and, while attempts are left, the user
\* is asked whether to resend
CliVerify ==
    /\ cli.pc = "verify"
    /\ VerifyCall
    /\ cli' = IF last'.exc = NoExc /\ last'.ret = "True"
              THEN [cli EXCEPT !.pc = "done", !.ret = "True", !.verifies = @ + 1]
              ELSE LET c == [cli EXCEPT !.attempts = @ + 1, !.verifies = @ + 1]
                   IN IF c.attempts < max_attempts
                      THEN [c EXCEPT !.pc = "resend"]
                      ELSE LoopTop(c)
    /\ CliFrame

\* lines 133-151: the user answers the question; a resend that raises an
\* EeroException ends the run, so does the answer no (break, line 157)
CliResend ==
    /\ cli.pc = "resend"
    /\ \E resend \in BOOLEAN :
         IF resend
         THEN /\ ResendCall
              /\ cli' = IF last'.exc # NoExc
                        THEN [cli EXCEPT !.pc = "done", !.ret = "False"]
                        ELSE LoopTop(cli)
              /\ UNCHANGED <<mem, store>>
         ELSE /\ cli' = [cli EXCEPT !.pc = "done", !.ret = "False"]
              /\ last' = Result("decline_resend", None, NoExc, 0, NoResp)
              /\ UNCHANGED <<mem, jar, store>>
    /\ CliFrame

\* the client is entered and interactive_login runs
CliNext ==
    \/ AEnter
    \/ InteractiveLogin
    \/ CliClear
    \/ CliLogin
    \/ CliVerify
    \/ CliResend

\* the CLI's login command: the user answers every prompt and the server
\* every request (an await yields an answer or a fault), so a step that can be
\* taken is taken
CliSpec == ResourceInit /\ [][CliNext]_vars /\ WF_vars(CliNext)

\* -------------------------------------------------------------------- claims
\* the token and expiry fields of the session
Tokens == <<user_token, session_id, refresh_token, session_expiry>>

\* the four token and expiry fields are unset in memory
TokensUnset ==
    /\ user_token = None
    /\ session_id = None
    /\ refresh_token = None
    /\ session_expiry = NoDate

\* the persisted blob, when a backend is active, holds the in-memory tokens
BlobHoldsTokens ==
    HasBackend =>
      /\ store.kind = "blob"
      /\ store.data.user_token = user_token
      /\ store.data.session_id = session_id
      /\ store.data.refresh_token = refresh_token
      /\ store.data.session_expiry = IsoFormat(session_expiry)

\* C1: in every reachable state is_authenticated is true exactly when the
\* session token is non-empty and the current time is before session_expiry.
C1_ExpiryInvariant ==
    is_authenticated <=>
      (Truthy(session_id) /\ HasDate(session_expiry) /\ now < session_expiry[1])

\* C2: when session_expiry is in the past and refresh_token is non-empty,
\* ensure_authenticated() issues exactly one refresh request; it returns true
\* with an expiry in the future if the refresh succeeds, and false with all
\* tokens cleared if it fails.
C2_EnsureRefreshesExpired ==
    [][ ( /\ impl = "AuthAPI"
          /\ last'.op = "ensure_authenticated"
          /\ HasDate(session_expiry)
          /\ session_expiry[1] < now
          /\ Truthy(refresh_token) )
        => ( /\ last'.nreq = 1
             /\ \/ /\ last'.ret = "True"
                   /\ HasDate(session_expiry')
                   /\ session_expiry'[1] > now'
                \/ /\ last'.ret = "False"
                   /\ TokensUnset' ) ]_vars

\* C3: refresh_session() called with a refresh_token and answered with an
\* error status returns false, and afterwards user_token, session_token,
\* refresh_token and session_expiry are unset in memory and in the blob.
C3_FailedRefreshClears ==
    [][ ( /\ impl = "AuthAPI"
          /\ last'.op = "refresh_session"
          /\ Truthy(refresh_token)
          /\ last'.resp.kind = "http"
          /\ last'.resp.status # 200 )
        => ( /\ last'.ret = "False"
             /\ last'.exc = NoExc
             /\ TokensUnset'
             /\ BlobHoldsTokens' ) ]_vars

\* the answer is an API error: AuthAPI's transport raises EeroAPIException
\* for it; for the standalone client, a status other than 200, 401 and 429
ApiErrorAnswer(r) ==
    /\ r.kind = "http"
    /\ \/ r.status \notin {200, 401, 429}
       \/ impl = "AuthAPI" /\ r.status = 200 /\ ~r.json

\* C4: logout() called while authenticated and answered with an API error
\* returns false without raising, and tokens, expiry and the persisted blob
\* are exactly as before the call.
C4_FailedLogoutKeepsState ==
    [][ ( /\ last'.op = "logout"
          /\ is_authenticated
          /\ ApiErrorAnswer(last'.resp) )
        => ( /\ last'.ret = "False"
             /\ last'.exc = NoExc
             /\ Tokens' = Tokens
             /\ store' = store ) ]_vars

\* C4 witness: a logout of an authenticated AuthAPI session was answered 500
\* and the session is still there
C4_Witness ==
    /\ impl = "AuthAPI"
    /\ last.op = "logout"
    /\ last.nreq = 1
    /\ last.resp.status = 500
    /\ last.ret = "False"
    /\ Truthy(session_id)
    /\ is_authenticated

C6_PreconditionsRaise ==
    [][ ( /\ impl = "AuthAPI"
          /\ \/ /\ last'.op \in {"verify", "resend_verification_code"}
                /\ user_token \in {None, ""}
             \/ /\ last'.op = "refresh_session"
                /\ refresh_token \in {None, ""} )
        => ( /\ last'.exc.type = "EeroAuthenticationException"
             /\ last'.nreq = 0
             /\ mem' = mem
             /\ jar' = jar
             /\ store' = store ) ]_vars

\* C6 witness: verify raised its precondition error after a login that the
\* server accepted with an empty user_token
C6_Witness ==
    /\ impl = "AuthAPI"
    /\ last.op = "verify"
    /\ last.nreq = 0
    /\ last.exc.type = "EeroAuthenticationException"
    /\ user_token = ""
    /\ login_in_progress

\* the answer reports an invalid verification code
BadCodeAnswer(r) == r.kind = "http" /\ r.status = 401 /\ r.invalid_code

\* the error verify() raises for a 401 that reports an invalid code
BadCodeError ==
    IF impl = "AuthAPI"
    THEN VerifyError(Request(Answer("http", 401, TRUE, TRUE, None, None, None,
                                    NoNetworks)).exc)
    ELSE Exc("EeroAuthenticationException", "Verification failed", 0)

\* C7: the error verify() raises for a 401 reporting an invalid code can be
\* told apart from the error of every other kind of verify failure.
C7_BadCodeDistinguishable ==
    ( /\ last.op = "verify"
      /\ last.exc # NoExc
      /\ ~BadCodeAnswer(last.resp) )
    => last.exc # BadCodeError

\* C8: a verify() that fails after sending its request leaves tokens, expiry
\* and the persisted blob unchanged, and a verify() answered 200 right after
\* it, on the same user_token, returns true and authenticates the session.
C8_FailedVerifyKeepsState ==
    /\ [][ ( /\ impl = "AuthAPI"
             /\ last'.op = "verify"
             /\ last'.nreq = 1
             /\ last'.exc # NoExc )
           => ( /\ Tokens' = Tokens
                /\ store' = store
                /\ user_token' \notin {None, ""} ) ]_vars
    /\ [][ ( /\ impl = "AuthAPI"
             /\ last.op = "verify"
             /\ last.nreq = 1
             /\ last.exc # NoExc
             /\ last'.op = "verify"
             /\ last'.resp.kind = "http"
             /\ last'.resp.status = 200
             /\ last'.resp.json )
           => ( /\ last'.ret = "True"
                /\ session_id' = user_token
                /\ user_token' = user_token
                /\ is_authenticated' ) ]_vars

\* C8 witness: a verify answered with a bad code raised, and the user token
\* of the pending login is still in place
C8_Witness ==
    /\ impl = "AuthAPI"
    /\ last.op = "verify"
    /\ last.nreq = 1
    /\ BadCodeAnswer(last.resp)
    /\ last.exc # NoExc
    /\ user_token = "T1"
    /\ session_id = None

\* what a successful verify at clock reading t leaves behind
VerifiedAt(t, sent) ==
    /\ last'.ret = "True"
    /\ session_id' = sent
    /\ session_expiry' = <<(t \div SubSec) * SubSec + SessionDays * 86400 * SubSec>>
    /\ is_authenticated'
    /\ HasBackend =>
         /\ store'.kind = "blob"
         /\ store'.data.session_id = sent
         /\ store'.data.session_expiry = <<(t \div SubSec) + SessionDays * 86400, 0>>

\* C9 as stated: whenever verify() is answered with HTTP 200 it returns true,
\* session_token is the user_token sent, session_expiry is the current time
\* truncated to seconds plus 30 days, is_authenticated is true and the blob
\* holds the same values.
C9_Original ==
    [][ ( /\ impl = "AuthAPI"
          /\ last'.op = "verify"
          /\ last'.resp.kind = "http"
          /\ last'.resp.status = 200 )
        => VerifiedAt(now, user_token) ]_vars

\* C9 amended: the same, when the 200 answer carries a body that parses as
\* JSON (a 200 whose body is not JSON is an API error of the transport).
C9_VerifySuccess ==
    [][ ( /\ impl = "AuthAPI"
          /\ last'.op = "verify"
          /\ last'.resp.kind = "http"
          /\ last'.resp.status = 200
          /\ last'.resp.json )
        => VerifiedAt(now, user_token) ]_vars

\* C9 witness: verify succeeded at a clock reading with a sub-second part, so
\* the new expiry is a whole second while the clock is not
C9_Witness ==
    /\ impl = "AuthAPI"
    /\ last.op = "verify"
    /\ last.ret = "True"
    /\ now % SubSec # 0
    /\ HasDate(session_expiry)
    /\ session_expiry[1] % SubSec = 0
    /\ session_id = user_token
    /\ is_authenticated

\* C10: a login() answered 200 with a user_token returns true, stores the
\* token, sets session_expiry to five minutes after the current time,
\* persists this state, and leaves is_authenticated false.
C10_LoginSuccess ==
    [][ ( /\ last'.op = "login"
          /\ last'.resp.kind = "http"
          /\ last'.resp.status = 200
          /\ last'.resp.json
          /\ Truthy(last'.resp.user_token) )
        => ( /\ last'.ret = "True"
             /\ user_token' = last'.resp.user_token
             /\ session_expiry' = <<now + LoginWindowMinutes * 60 * SubSec>>
             /\ BlobHoldsTokens'
             /\ ~is_authenticated' ) ]_vars

\* what a successful refresh at clock reading t leaves behind
RefreshedAt(t) ==
    /\ last'.ret = "True"
    /\ last'.exc = NoExc
    /\ session_id' = last'.resp.session_token
    /\ refresh_token' = last'.resp.refresh_token
    /\ session_expiry' = <<(t \div SubSec) * SubSec + SessionDays * 86400 * SubSec>>
    /\ HasBackend =>
         /\ store'.kind = "blob"
         /\ store'.data.session_id = session_id'
         /\ store'.data.refresh_token = refresh_token'
         /\ store'.data.user_token = user_token'
         /\ store'.data.session_expiry = <<(t \div SubSec) + SessionDays * 86400, 0>>

\* C11 as stated: whenever refresh_session() is called with a refresh_token
\* and answered with HTTP 200, it installs the session_token and
\* refresh_token of the response, sets session_expiry to 30 days after the
\* current time, persists that state and returns true.
C11_Original ==
    [][ ( /\ impl = "AuthAPI"
          /\ last'.op = "refresh_session"
          /\ Truthy(refresh_token)
          /\ last'.resp.kind = "http"
          /\ last'.resp.status = 200 )
        => RefreshedAt(now) ]_vars

\* C11 amended: the same, when the 200 answer is a JSON body that carries a
\* non-empty session_token; the expiry is 30 days after the current time
\* truncated to whole seconds.
C11_RefreshSuccess ==
    [][ ( /\ impl = "AuthAPI"
          /\ last'.op = "refresh_session"
          /\ Truthy(refresh_token)
          /\ last'.resp.kind = "http"
          /\ last'.resp.status = 200
          /\ last'.resp.json
          /\ Truthy(last'.resp.session_token) )
        => RefreshedAt(now) ]_vars

\* C11 witness: refresh_session returned true at a clock reading with a
\* sub-second part and the session holds the tokens of the answer
C11_Witness ==
    /\ impl = "AuthAPI"
    /\ last.op = "refresh_session"
    /\ last.ret = "True"
    /\ session_id = "S1"
    /\ refresh_token = "R1"
    /\ now % SubSec # 0
    /\ session_expiry = <<now - (now % SubSec) + SessionLifetime>>
    /\ HasBackend
    /\ store.data.session_id = "S1"

\* another client has saved its session and the store still holds that save
SavedIntact ==
    /\ writer.pc = "done"
    /\ store = Stored(SessionBlob(writer.session))

\* the loaded session has the saved values of the named fields
LoadedAsSaved ==
    /\ user_token' = writer.session.user_token
    /\ session_id' = writer.session.session_id
    /\ refresh_token' = writer.session.refresh_token
    /\ session_expiry' = writer.session.session_expiry
    /\ preferred_network_id' = writer.session.preferred_network_id

\* the expiry of the saved session has passed
SavedExpired ==
    /\ HasDate(writer.session.session_expiry)
    /\ writer.session.session_expiry[1] < now

\* C12 as stated: loading a saved session into a fresh client yields the
\* user_token, session_token, refresh_token, session_expiry and
\* preferred_network_id that were saved, and a session loaded after its
\* expiry has passed reports is_authenticated false.
C12_Original ==
    [][ ( /\ impl = "AuthAPI"
          /\ last'.op = "aenter"
          /\ SavedIntact )
        => ( /\ LoadedAsSaved
             /\ SavedExpired => ~is_authenticated' ) ]_vars

\* C12 amended: a session loaded before its expiry has passed comes back with
\* the saved values; one loaded after its expiry has passed comes back with
\* the saved user_token, refresh_token and preferred_network_id, without
\* session_token and session_expiry, and reports is_authenticated false.
C12_SaveLoadRoundTrip ==
    [][ ( /\ impl = "AuthAPI"
          /\ last'.op = "aenter"
          /\ SavedIntact )
        => IF SavedExpired
           THEN /\ user_token' = writer.session.user_token
                /\ refresh_token' = writer.session.refresh_token
                /\ preferred_network_id' = writer.session.preferred_network_id
                /\ session_id' = None
                /\ session_expiry' = NoDate
                /\ ~is_authenticated'
           ELSE LoadedAsSaved ]_vars

\* C12 witness: a fresh client has loaded a saved session whose expiry has a
\* sub-second part and holds exactly the saved values
C12_Witness ==
    /\ impl = "AuthAPI"
    /\ entered
    /\ last.op = "aenter"
    /\ SavedIntact
    /\ session_id = "T2"
    /\ refresh_token = "R2"
    /\ preferred_network_id = "N2"
    /\ HasDate(session_expiry)
    /\ session_expiry[1] % SubSec # 0
    /\ session_expiry = writer.session.session_expiry

\* C13: a resource call made while the session is not authenticated sends no
\* HTTP request and raises a not-authenticated error.
C13_NoRequestUnauthenticated ==
    [][ ( /\ last'.op \in {"get_networks", "get_account"}
          /\ ~is_authenticated )
        => ( /\ last'.nreq = 0
             /\ last'.exc = Exc("EeroAuthenticationException", "Not authenticated", 0) )
      ]_vars

\* the operations of C14
MutatingOps ==
    {"login", "verify", "logout", "refresh_session", "clear_auth_data",
     "set_preferred_network_id"}

\* C14: whenever login, verify, logout, refresh_session, clear_auth_data or
\* an assignment of preferred_network_id returns, the persisted blob of the
\* active backend equals the in-memory session.
C14_BlobFollowsMemory ==
    [][ ( /\ impl = "AuthAPI"
          /\ HasBackend
          /\ last'.op \in MutatingOps
          /\ last'.exc = NoExc )
        => store'.data = BlobOf(user_token', refresh_token', session_id', user_id',
                                preferred_network_id', session_expiry') ]_vars

\* the backing store has no entry, is empty, is unreadable or holds
\* malformed content
NothingToLoad(st) ==
    \/ st.kind \in {"absent", "empty", "unreadable", "invalid_json"}
    \/ /\ st.kind = "blob"
       /\ st.data.session_expiry # <<>>
       /\ ~IsIsoFormat(st.data.session_expiry)

\* C15: loading from a backing store that has no entry, is empty, is
\* unreadable or holds malformed content raises nothing and leaves the
\* session empty: no field of the entry is installed.
C15_LoadNeverRaises ==
    [][ ( /\ impl = "AuthAPI"
          /\ last'.op = "aenter"
          /\ NothingToLoad(store) )
        => ( /\ last'.exc = NoExc
             /\ TokensUnset'
             /\ user_id' = None
             /\ preferred_network_id' = None ) ]_vars

\* C16: a client that loads from a cookie file which held a complete blob
\* when another process began to save reads either that previous blob or the
\* complete new blob, never an empty or partially written file.
C16_AtomicSave ==
    [][ ( /\ last'.op = "aenter"
          /\ cookie_file
          /\ ~use_keyring
          /\ writer.pc # "idle"
          /\ writer.prev.kind = "blob" )
        => store \in {writer.prev, Stored(SessionBlob(writer.session))} ]_vars

\* a resource call has sent its request: its result is the transport's
RequestSent ==
    /\ last.op \in {"get_networks", "get_account"}
    /\ last.resp.kind # "none"

\* C17: the transport maps every outcome of a request to exactly one result:
\* 200 with a JSON body returns the body; 200 without one raises an API error
\* carrying the text; 401 raises an authentication error; 429 a rate-limit
\* error; every other status an API error carrying status code and body; a
\* timeout a timeout error; a connection failure a network error; nothing
\* but a 200 with a JSON body returns normally.
C17_TransportMapping ==
    RequestSent =>
      LET r == last.resp
          e == last.exc
          good == r.kind = "http" /\ r.status = 200 /\ r.json
      IN /\ good => (e = NoExc /\ last.ret = "data")
         /\ ~good => (e # NoExc /\ last.ret = None)
         /\ (r.kind = "http" /\ r.status = 200 /\ ~r.json) =>
              (e.type = "EeroAPIException" /\ e.body = ResponseText(r))
         /\ (r.kind = "http" /\ r.status = 401) =>
              e.type = "EeroAuthenticationException"
         /\ (r.kind = "http" /\ r.status = 429) =>
              e.type = "EeroRateLimitException"
         /\ (r.kind = "http" /\ r.status \notin {200, 401, 429}) =>
              ( /\ e.type = "EeroAPIException"
                /\ e.status_code = r.status
                /\ e.body = ResponseText(r) )
         /\ r.kind = "timeout" => e.type = "EeroTimeoutException"
         /\ r.kind = "neterr" => e.type = "EeroNetworkException"

\* C17 witness: get_networks of an authenticated session was answered 429
\* and raised the rate-limit error
C17_Witness ==
    /\ last.op = "get_networks"
    /\ last.resp.kind = "http"
    /\ last.resp.status = 429
    /\ last.exc.type = "EeroRateLimitException"
    /\ jar = session_id
    /\ is_authenticated

\* the identifier C18 expects on the wire for the identifier u
NormalizedIdentifier(u) ==
    LET rest == IF u # <<>> /\ u[1] = "+" THEN Tail(u) ELSE u
        phone == /\ rest # <<>>
                 /\ \A i \in 1..Len(rest) :
                      rest[i] \in Digits \cup {" ", "-", "(", ")"}
        digits == OnlyDigits(u)
    IN IF phone
       THEN IF Len(digits) = 10
            THEN <<"+", "1">> \o digits
            ELSE <<"+">> \o digits
       ELSE u

\* C18: login() sends an identifier made only of digits, spaces, dashes and
\* parentheses (with an optional leading "+") as "+" and digits only, "+1"
\* and the digits when there are exactly ten, and any other identifier
\* unmodified.
C18_LoginNormalizes ==
    (last.op = "login" /\ last.nreq = 1)
    => last.sent = NormalizedIdentifier(user_identifier)

\* the operations of C19
RequestingOps ==
    {"login", "verify", "resend_verification_code", "logout", "refresh_session"}

\* C19: when the request of login, verify, resend_verification_code, logout
\* or refresh_session ends in a connection failure the caller gets a network
\* error, and when it times out a timeout error; never an authentication
\* error, never a return value.
C19_FaultsPropagate ==
    ( /\ impl = "AuthAPI"
      /\ last.op \in RequestingOps
      /\ last.resp.kind \in {"neterr", "timeout"} )
    => ( /\ last.ret = None
         /\ last.exc.type = IF last.resp.kind = "neterr"
                             THEN "EeroNetworkException"
                             ELSE "EeroTimeoutException" )

\* C19 witness: a login whose request timed out raised the timeout error
C19_Witness ==
    /\ impl = "AuthAPI"
    /\ last.op = "login"
    /\ last.nreq = 1
    /\ last.resp.kind = "timeout"
    /\ last.exc.type = "EeroTimeoutException"
    /\ login_in_progress

\* C20: a clear_auth_data() that directly follows a clear_auth_data() raises
\* nothing, like the first, and leaves the in-memory session, the cookie jar
\* and the persisted blob as the first call left them.
C20_ClearTwice ==
    [][ ( /\ impl = "AuthAPI"
          /\ last.op = "clear_auth_data"
          /\ last'.op = "clear_auth_data" )
        => ( /\ last.exc = NoExc
             /\ last'.exc = NoExc
             /\ mem' = mem
             /\ jar' = jar
             /\ store' = store ) ]_vars

\* C20 witness: clear_auth_data has run on a client that had loaded a
\* session: tokens and cookie are gone and the blob holds the cleared state
C20_Witness ==
    /\ impl = "AuthAPI"
    /\ last.op = "clear_auth_data"
    /\ last.exc = NoExc
    /\ TokensUnset
    /\ jar = None
    /\ ~login_in_progress
    /\ store.kind = "blob"
    /\ store.data.session_id = None
    /\ store.data.preferred_network_id = "N0"

\* every field of the session is unset in memory
SessionEmpty ==
    /\ TokensUnset
    /\ user_id = None
    /\ preferred_network_id = None
    /\ ~login_in_progress

\* C21: after clear_auth_data() returns, from any prior state, user_token,
\* session_token, refresh_token, session_expiry, user id,
\* preferred_network_id and login_in_progress are unset in memory, and the
\* persisted blob holds that same empty session.
C21_ClearWipesAll ==
    [][ ( /\ impl = "AuthAPI"
          /\ last'.op = "clear_auth_data" )
        => ( /\ SessionEmpty'
             /\ HasBackend =>
                  store' = Stored(BlobOf(None, None, None, None, None, NoDate)) ) ]_vars

\* the token and expiry fields v (a session or a blob's data) hold nothing but
\* what the login that got the answer resp at clock reading t has set itself:
\* the user_token of the answer and, when the login returned true, the expiry
\* of the verification window
OnlyOfThisLogin(ut, sid, rt, exp, resp, ret, t) ==
    /\ ut \in {None, resp.user_token}
    /\ sid = None
    /\ rt = None
    /\ \/ exp = NoDate
       \/ ret = "True" /\ exp = <<t + LoginWindowMinutes * 60 * SubSec>>

\* C22: once login() has been entered, no user_token, session_token,
\* refresh_token or session_expiry of an earlier login or session remains in
\* memory or in the persisted blob, whether the login returns true, returns
\* false or raises.
C22_LoginDiscardsPrevious ==
    [][ last'.op = "login"
        => ( /\ OnlyOfThisLogin(user_token', session_id', refresh_token',
                                session_expiry', last'.resp, last'.ret, now)
             /\ OnlyOfThisLogin(store'.data.user_token, store'.data.session_id,
                                store'.data.refresh_token,
                                IF store'.data.session_expiry = <<>> THEN NoDate
                                ELSE FromIsoFormat(store'.data.session_expiry),
                                last'.resp, last'.ret, now) ) ]_vars

\* C23: user_token and session_token are never both set at the end of an
\* operation: once verify or refresh_session has produced a session_token,
\* user_token is empty.
C23_TokensExclusive ==
    ~(Truthy(user_token) /\ Truthy(session_id))

\* C24: every request sent by the transport carries the default header set
\* merged with the caller-supplied headers, the caller's value winning on a
\* name present in both.
C24_HeadersMerged ==
    last.nreq >= 1 =>
      /\ \A h \in last.caller_headers : h \in last.headers
      /\ \A d \in DEFAULT_HEADERS \ last.caller_headers :
           (d \in last.headers) <=> ~(\E h \in last.caller_headers : h[1] = d[1])
      /\ \A s \in last.headers : s \in last.caller_headers \cup DEFAULT_HEADERS

\* C25: every typed failure the transport raises for a non-200 response
\* (authentication, rate-limit, not-found and generic API errors alike)
\* carries the HTTP status code, the response body and the request URL.
C25_ErrorsCarryContext ==
    ( /\ impl = "AuthAPI"
      /\ last.op = "request"
      /\ last.resp.kind = "http"
      /\ last.resp.status # 200 )
    => ( /\ last.exc # NoExc
         /\ last.exc.status_code = last.resp.status
         /\ last.exc.body = ResponseText(last.resp)
         /\ last.exc.url )

\* C26: interactive_login always terminates after a bounded number of
\* attempts: it calls login at most once and verify at most 3 times, and it
\* returns false once the third verification has failed or the user declines
\* a resend.
C26_InteractiveLoginBounded ==
    /\ [](cli.logins <= 1 /\ cli.verifies <= 3)
    /\ [][ ( /\ cli.pc = "verify"
             /\ cli'.verifies = 3
             /\ ~(last'.exc = NoExc /\ last'.ret = "True") )
           => (cli'.pc = "done" /\ cli'.ret = "False") ]_vars
    /\ [][ (cli.pc = "resend" /\ last'.op = "decline_resend")
           => (cli'.pc = "done" /\ cli'.ret = "False") ]_vars
    /\ <>(cli.pc = "done")

\* C26 witness: the run has ended with false after one login and three
\* verifications, the third one refused for a wrong code
C26_Witness ==
    /\ cli.pc = "done"
    /\ cli.ret = "False"
    /\ cli.logins = 1
    /\ cli.verifies = 3
    /\ cli.attempts = 3
    /\ last.op = "verify"
    /\ BadCodeAnswer(last.resp)
    /\ last.exc.type = "EeroAuthenticationException"

\* the persisted session that a load at clock reading t installs as an
\* authenticated one: it has a session token and an expiry that has not passed
LoadsAuthenticated(st, t) ==
    /\ st.kind = "blob"
    /\ Truthy(st.data.session_id)
    /\ st.data.session_expiry # <<>>
    /\ st.data.session_expiry[1] * SubSec + st.data.session_expiry[2] >= t

\* C27: is_authenticated changes from false to true only through a
\* successful verify(), a successful refresh_session() or the load of an
\* unexpired persisted session; login, resend_verification_code, logout,
\* clear_auth_data and assigning preferred_network_id never make it true.
C27_OnlyThreeWaysIn ==
    [][ (impl = "AuthAPI" /\ ~is_authenticated /\ is_authenticated')
        => \/ last'.op = "verify" /\ last'.ret = "True" /\ last'.exc = NoExc
           \/ last'.op = "refresh_session" /\ last'.ret = "True" /\ last'.exc = NoExc
           \/ last'.op = "aenter" /\ HasBackend /\ LoadsAuthenticated(store, now) ]_vars

\* C27 witness: a fresh client has loaded an unexpired persisted session and
\* is authenticated
C27_Witness ==
    /\ impl = "AuthAPI"
    /\ last.op = "aenter"
    /\ is_authenticated
    /\ session_id = "S0"
    /\ refresh_token = "R0"
    /\ store.data.session_id = "S0"

\* C28: whenever get_auth_token() returns a value, that value is the current
\* non-empty session_token and the current time is not past session_expiry;
\* in every other state it returns nothing.
C28_NoStaleToken ==
    [][ (impl = "AuthAPI" /\ last'.op = "get_auth_token")
        => /\ last'.ret # None =>
                /\ last'.ret = session_id'
                /\ Truthy(session_id')
                /\ HasDate(session_expiry')
                /\ ~(now' > session_expiry'[1])
           /\ ~is_authenticated => last'.ret = None ]_vars

\* C29: the cookie "s" of the shared cookie jar is absent whenever user_token
\* and session_token are both empty: after logout, clear_auth_data, a failed
\* refresh_session or the reset at the start of login no later request can
\* carry a token of the discarded session.
C29_NoCookieWithoutToken ==
    (impl = "AuthAPI" /\ ~Truthy(user_token) /\ ~Truthy(session_id))
    => jar = None

\* the verification answer names the network id: it is the id of one of its
\* network entries, or the last path segment of the url of one
NamesNetwork(nets, id) ==
    \E list \in {nets.networks, nets.data} :
      \E i \in 1..Len(list) :
        \/ list[i].id = id
        \/ list[i].url # NoUrl /\ list[i].url[Len(list[i].url)] = id

\* C30: after a successful verify(), preferred_network_id is either a network
\* identifier taken from that verify response or unset: one stored by an
\* earlier session does not survive logout or clear_auth_data followed by a
\* new login and a verify whose response names no network.
C30_NoStaleNetwork ==
    [][ ( /\ impl = "AuthAPI"
          /\ last'.op = "verify"
          /\ last'.ret = "True" )
        => \/ preferred_network_id' = None
           \/ NamesNetwork(last'.resp.nets, preferred_network_id') ]_vars

====
